---- MODULE Spec2Model ----
(***************************************************************************)
(* Model of cpp/src_prims/linalg/eltwise.cuh (MLCommon::LinAlg).           *)
(*                                                                         *)
(* The seven public wrappers (scalarAdd .. eltwiseDivideCheckZero) and     *)
(* their device lambdas are translated from eltwise.cuh.  The primitives   *)
(* unaryOp / binaryOp (unary_op.cuh, binary_op.cuh) and the stream that    *)
(* executes their kernels are modelled from the written specification:     *)
(* one worker per index, each reading in[i] (in1[i], in2[i]) and then      *)
(* writing out[i]; kernels of one stream run in FIFO order.                *)
(*                                                                         *)
(* math_t is instantiated with a signed integral type; the values used are *)
(* far from the type's limits, so arithmetic is done in Int.  Division     *)
(* truncates towards zero, and division by zero is undefined: its result   *)
(* is any member of UndefinedResults.                                      *)
(***************************************************************************)
EXTENDS Integers, Sequences, FiniteSets, TLC

\* ---------------------------------------------------------------- bounds
BufLen == 2          \* capacity (in elements) of every device buffer
MaxCalls == 2        \* number of library calls the host program makes

\* ------------------------------------------------------------ input sets
Idx == 0 .. (BufLen - 1)
Buf == {"a", "b", "o"}
Streams == {1, 2}
Values == {-3, 0, 2}
Divisors == {0, 2}
Scalars == {2}
UndefinedResults == {-1, 0, 1}
UnaryArgs == {<<"o", "a">>, <<"b", "o">>}
BinaryArgs == {<<"o", "a", "b">>, <<"a", "a", "a">>}
UnaryApis == {"scalarAdd", "scalarMultiply"}
BinaryApis == {"eltwiseAdd", "eltwiseSub", "eltwiseMultiply", "eltwiseDivide",
               "eltwiseDivideCheckZero"}
Apis == UnaryApis \cup BinaryApis
RaceApis == {"scalarAdd", "eltwiseAdd", "eltwiseSub"}

VARIABLES
  mem,       \* device memory: mem[b][i] is element i of buffer b
  n,         \* the element count the host program passes as len
  queue,     \* queue[s]: kernels enqueued on stream s, not yet started
  running,   \* running[s]: << >> or <<the kernel stream s is executing>>
  wk,        \* wk[s][i]: worker i of the running kernel (pc and registers)
  snap,      \* snap[s]: device memory when the running kernel started
  prev,      \* prev[s]: << >> or <<record of the last kernel s completed>>
  ncalls     \* number of library calls made so far

vars == <<mem, n, queue, running, wk, snap, prev, ncalls>>

\* ------------------------------------------------------ native arithmetic
Abs(x) == IF x < 0 THEN -x ELSE x

\* integral a / b for b # 0: the quotient truncated towards zero
CDiv(a, b) ==
  LET q == Abs(a) \div Abs(b) IN IF (a < 0) # (b < 0) THEN -q ELSE q

\* a / b of math_t: the set of results the build can produce
NativeDivide(a, b) == IF b = 0 THEN UndefinedResults ELSE {CDiv(a, b)}

\* ------------------------------------------------------ device lambdas
\* Each returns the set of values the lambda can return.
scalarAddLambda(in, scalar) == {in + scalar}

\* faulty variant: the scalar is added instead of multiplied
scalarMultiplyLambdaAdds(in, scalar) == {in + scalar}

scalarMultiplyLambda(in, scalar) == {in * scalar}

\* faulty variant: the second operand is ignored
eltwiseAddLambdaTwice(a, b) == {a + a}

eltwiseAddLambda(a, b) == {a + b}

\* faulty variant: the operands are exchanged
eltwiseSubLambdaSwapped(a, b) == {b - a}

eltwiseSubLambda(a, b) == {a - b}

\* faulty variant: the operands are added
eltwiseMultiplyLambdaAdds(a, b) == {a + b}

eltwiseMultiplyLambda(a, b) == {a * b}

eltwiseDivideLambda(a, b) == NativeDivide(a, b)

\* faulty variant: the zero test is missing
eltwiseDivideCheckZeroLambdaNoGuard(a, b) == NativeDivide(a, b)

eltwiseDivideCheckZeroLambda(a, b) ==
  IF b = 0 THEN {0} ELSE NativeDivide(a, b)

\* op is a closure [fn, scalar]: the lambda and the scalar it captured by value
ApplyOp(op, x, y) ==
  CASE op.fn = "scalarAdd" -> scalarAddLambda(x, op.scalar)
    [] op.fn = "scalarMultiply" -> scalarMultiplyLambda(x, op.scalar)
    [] op.fn = "eltwiseAdd" -> eltwiseAddLambda(x, y)
    [] op.fn = "eltwiseSub" -> eltwiseSubLambda(x, y)
    [] op.fn = "eltwiseMultiply" -> eltwiseMultiplyLambda(x, y)
    [] op.fn = "eltwiseDivide" -> eltwiseDivideLambda(x, y)
    [] op.fn = "eltwiseDivideCheckZero" -> eltwiseDivideCheckZeroLambda(x, y)

\* ------------------------------------------------------ primitives
\* A launch: the stream it is enqueued on and the kernel's arguments.
unaryOp(out, in, len, op, stream) ==
  [stream |-> stream,
   k |-> [out |-> out, in1 |-> in, in2 |-> in, len |-> len, op |-> op]]

binaryOp(out, in1, in2, len, op, stream) ==
  [stream |-> stream,
   k |-> [out |-> out, in1 |-> in1, in2 |-> in2, len |-> len, op |-> op]]

\* ------------------------------------------------------ public wrappers
\* faulty variant: the result is written over the input
scalarAddInPlace(out, in, scalar, len, stream) ==
  unaryOp(in, in, len, [fn |-> "scalarAdd", scalar |-> scalar], stream)

scalarAdd(out, in, scalar, len, stream) ==
  unaryOp(out, in, len, [fn |-> "scalarAdd", scalar |-> scalar], stream)

\* faulty variant: the last element is left out
scalarMultiplyShort(out, in, scalar, len, stream) ==
  unaryOp(out, in, IF len > 0 THEN len - 1 ELSE 0,
          [fn |-> "scalarMultiply", scalar |-> scalar], stream)

scalarMultiply(out, in, scalar, len, stream) ==
  unaryOp(out, in, len, [fn |-> "scalarMultiply", scalar |-> scalar], stream)

\* faulty variant: the second operand is read from the output buffer
eltwiseAddReadsOut(out, in1, in2, len, stream) ==
  binaryOp(out, in1, out, len, [fn |-> "eltwiseAdd", scalar |-> 0], stream)

eltwiseAdd(out, in1, in2, len, stream) ==
  binaryOp(out, in1, in2, len, [fn |-> "eltwiseAdd", scalar |-> 0], stream)

\* faulty variant: the output and the first input are exchanged
eltwiseSubSwappedBuffers(out, in1, in2, len, stream) ==
  binaryOp(in1, out, in2, len, [fn |-> "eltwiseSub", scalar |-> 0], stream)

eltwiseSub(out, in1, in2, len, stream) ==
  binaryOp(out, in1, in2, len, [fn |-> "eltwiseSub", scalar |-> 0], stream)

eltwiseMultiply(out, in1, in2, len, stream) ==
  binaryOp(out, in1, in2, len, [fn |-> "eltwiseMultiply", scalar |-> 0],
           stream)

\* faulty variant: an empty call still processes one element
eltwiseDivideAtLeastOne(out, in1, in2, len, stream) ==
  binaryOp(out, in1, in2, IF len = 0 THEN 1 ELSE len,
           [fn |-> "eltwiseDivide", scalar |-> 0], stream)

eltwiseDivide(out, in1, in2, len, stream) ==
  binaryOp(out, in1, in2, len, [fn |-> "eltwiseDivide", scalar |-> 0], stream)

eltwiseDivideCheckZero(out, in1, in2, len, stream) ==
  binaryOp(out, in1, in2, len,
           [fn |-> "eltwiseDivideCheckZero", scalar |-> 0], stream)

\* ------------------------------------------------------ host calls
\* The arguments of a call as the caller wrote them.
CallArgs(api) ==
  IF api \in UnaryApis
  THEN {[out |-> x[1], in1 |-> x[2], in2 |-> x[2], scalar |-> s, len |-> n] :
          x \in UnaryArgs, s \in Scalars}
  ELSE {[out |-> x[1], in1 |-> x[2], in2 |-> x[3], scalar |-> 0, len |-> n] :
          x \in BinaryArgs}

Dispatch(api, x, stream) ==
  CASE api = "scalarAdd" -> scalarAdd(x.out, x.in1, x.scalar, x.len, stream)
    [] api = "scalarMultiply" ->
         scalarMultiply(x.out, x.in1, x.scalar, x.len, stream)
    [] api = "eltwiseAdd" -> eltwiseAdd(x.out, x.in1, x.in2, x.len, stream)
    [] api = "eltwiseSub" -> eltwiseSub(x.out, x.in1, x.in2, x.len, stream)
    [] api = "eltwiseMultiply" ->
         eltwiseMultiply(x.out, x.in1, x.in2, x.len, stream)
    [] api = "eltwiseDivide" ->
         eltwiseDivide(x.out, x.in1, x.in2, x.len, stream)
    [] api = "eltwiseDivideCheckZero" ->
         eltwiseDivideCheckZero(x.out, x.in1, x.in2, x.len, stream)

IdleWorker == [pc |-> "idle", r1 |-> 0, r2 |-> 0]

\* ------------------------------------------------------ initial states
InitDevice ==
  /\ queue = [s \in Streams |-> << >>]
  /\ running = [s \in Streams |-> << >>]
  /\ wk = [s \in Streams |-> [i \in Idx |-> IdleWorker]]
  /\ prev = [s \in Streams |-> << >>]
  /\ ncalls = 0

Init ==
  /\ \E va \in [Idx -> Values], vb \in [Idx -> Divisors] :
       mem = [b \in Buf |-> IF b = "a" THEN va
                            ELSE IF b = "b" THEN vb ELSE [i \in Idx |-> 0]]
  /\ n \in 0 .. BufLen
  /\ snap = [s \in Streams |-> mem]
  /\ InitDevice

\* ------------------------------------------------------ actions
\* The host calls one wrapper on stream s; the call only enqueues.
HostCall(s, apis) ==
  /\ ncalls < MaxCalls
  /\ \E api \in apis :
       \E x \in CallArgs(api) :
         LET l == Dispatch(api, x, s) IN
           queue' = [queue EXCEPT ![l.stream] =
                       Append(@, [id |-> ncalls + 1, api |-> api, args |-> x,
                                  k |-> l.k])]
  /\ ncalls' = ncalls + 1
  /\ UNCHANGED <<mem, n, running, wk, snap, prev>>

\* Stream s starts its oldest enqueued kernel once the previous one is over.
KernelStart(s) ==
  /\ running[s] = << >>
  /\ queue[s] # << >>
  /\ running' = [running EXCEPT ![s] = <<Head(queue[s])>>]
  /\ queue' = [queue EXCEPT ![s] = Tail(@)]
  /\ wk' = [wk EXCEPT ![s] =
              [i \in Idx |-> IF i < Head(queue[s]).k.len
                             THEN [pc |-> "ready", r1 |-> 0, r2 |-> 0]
                             ELSE IdleWorker]]
  /\ snap' = [snap EXCEPT ![s] = mem]
  /\ UNCHANGED <<mem, n, prev, ncalls>>

\* Worker i of the running kernel reads its operands.
Load(s, i) ==
  /\ running[s] # << >>
  /\ wk[s][i].pc = "ready"
  /\ LET k == running[s][1].k IN
       wk' = [wk EXCEPT ![s][i] =
                [pc |-> "loaded", r1 |-> mem[k.in1][i], r2 |-> mem[k.in2][i]]]
  /\ UNCHANGED <<mem, n, queue, running, snap, prev, ncalls>>

\* Worker i applies the element function and writes its result.
Store(s, i) ==
  /\ running[s] # << >>
  /\ wk[s][i].pc = "loaded"
  /\ LET k == running[s][1].k IN
       \E v \in ApplyOp(k.op, wk[s][i].r1, wk[s][i].r2) :
         mem' = [mem EXCEPT ![k.out][i] = v]
  /\ wk' = [wk EXCEPT ![s][i] = [pc |-> "done", r1 |-> 0, r2 |-> 0]]
  /\ UNCHANGED <<n, queue, running, snap, prev, ncalls>>

\* The running kernel is over when each of its workers is.
KernelEnd(s) ==
  /\ running[s] # << >>
  /\ \A i \in Idx : wk[s][i].pc \in {"idle", "done"}
  /\ prev' = [prev EXCEPT ![s] =
                <<[call |-> running[s][1],
                   inv |-> snap[s],
                   outv |-> mem[running[s][1].args.out],
                   applied |-> Cardinality({i \in Idx : wk[s][i].pc = "done"})]>>]
  /\ running' = [running EXCEPT ![s] = << >>]
  /\ wk' = [wk EXCEPT ![s] = [i \in Idx |-> IdleWorker]]
  /\ UNCHANGED <<mem, n, queue, snap, ncalls>>

\* One stream: every call of the host program goes to stream 1.
Next ==
  \/ HostCall(1, Apis)
  \/ KernelStart(1)
  \/ \E i \in Idx : Load(1, i)
  \/ \E i \in Idx : Store(1, i)
  \/ KernelEnd(1)

Spec == Init /\ [][Next]_vars

\* One stream, scheduled fairly: a kernel that can start does start, a worker
\* that can step does step, a finished kernel is retired.  The host program
\* is not obliged to make any call.
InitLive ==
  /\ mem = [b \in Buf |-> IF b = "a" THEN [i \in Idx |-> -3]
                          ELSE IF b = "b" THEN [i \in Idx |-> 2]
                          ELSE [i \in Idx |-> 0]]
  /\ n \in 0 .. BufLen
  /\ snap = [s \in Streams |-> mem]
  /\ InitDevice

StreamFairness(s) ==
  /\ WF_vars(KernelStart(s))
  /\ \A i \in Idx : WF_vars(Load(s, i)) /\ WF_vars(Store(s, i))
  /\ WF_vars(KernelEnd(s))

FairSpec == InitLive /\ [][Next]_vars /\ StreamFairness(1)

\* Two streams: the host program spreads its calls over both.
InitRace ==
  /\ mem = [b \in Buf |-> IF b = "a" THEN [i \in Idx |-> -3]
                          ELSE IF b = "b" THEN [i \in Idx |-> 2]
                          ELSE [i \in Idx |-> 0]]
  /\ n \in 1 .. BufLen
  /\ snap = [s \in Streams |-> mem]
  /\ InitDevice

NextRace ==
  \/ \E s \in Streams : HostCall(s, RaceApis)
  \/ \E s \in Streams : KernelStart(s)
  \/ \E s \in Streams, i \in Idx : Load(s, i)
  \/ \E s \in Streams, i \in Idx : Store(s, i)
  \/ \E s \in Streams : KernelEnd(s)

SpecRace == InitRace /\ [][NextRace]_vars

\* ====================================================== properties
Retired(s) == prev[s] # << >>
Last(s) == prev[s][1]
Busy(s) == running[s] # << >>
Cur(s) == running[s][1]
NonAliased(x) == x.out \notin {x.in1, x.in2}

\* q is x / y with the fraction discarded
IsQuotient(q, x, y) ==
  /\ y # 0
  /\ \E r \in (1 - Abs(y)) .. (Abs(y) - 1) :
       /\ x = q * y + r
       /\ r = 0 \/ (r < 0) = (x < 0)

\* C1: after a completed eltwiseAdd / eltwiseSub / eltwiseMultiply /
\* eltwiseDivide whose out is neither input, out[i] is in1[i] + in2[i],
\* in1[i] - in2[i], in1[i] * in2[i], in1[i] / in2[i] (divisor non-zero) for
\* every i < len, in1 being the left operand.
C1_BinaryResults ==
  \A s \in Streams :
    Retired(s) /\ NonAliased(Last(s).call.args) =>
      LET e == Last(s)
          x == e.call.args
      IN \A i \in Idx : i < x.len =>
           LET a == e.inv[x.in1][i]
               b == e.inv[x.in2][i]
               r == e.outv[i]
           IN /\ e.call.api = "eltwiseAdd" => r = a + b
              /\ e.call.api = "eltwiseSub" => r = a - b
              /\ e.call.api = "eltwiseMultiply" => r = a * b
              /\ e.call.api = "eltwiseDivide" /\ b # 0 => IsQuotient(r, a, b)

C1_Witness ==
  /\ Retired(1)
  /\ Last(1).call.api = "eltwiseSub"
  /\ NonAliased(Last(1).call.args)
  /\ Last(1).call.args.len = BufLen
  /\ Last(1).inv["a"][0] = -3
  /\ Last(1).inv["b"][0] = 2
  /\ Last(1).outv[0] = -5

\* C2: after a completed eltwiseDivideCheckZero, out[i] is 0 where in2[i] is 0
\* and in1[i] / in2[i] elsewhere, which is what eltwiseDivide yields there.
C2_ZeroGuard ==
  \A s \in Streams :
    (/\ Retired(s)
     /\ Last(s).call.api = "eltwiseDivideCheckZero"
     /\ NonAliased(Last(s).call.args)) =>
      LET e == Last(s)
          x == e.call.args
          plain == eltwiseDivide(x.out, x.in1, x.in2, x.len, s).k.op
      IN \A i \in Idx : i < x.len =>
           LET a == e.inv[x.in1][i]
               b == e.inv[x.in2][i]
               r == e.outv[i]
           IN /\ b = 0 => r = 0
              /\ b # 0 => IsQuotient(r, a, b) /\ ApplyOp(plain, a, b) = {r}

C2_Witness ==
  /\ Retired(1)
  /\ Last(1).call.api = "eltwiseDivideCheckZero"
  /\ NonAliased(Last(1).call.args)
  /\ \E i, j \in Idx :
       /\ i < Last(1).call.args.len /\ j < Last(1).call.args.len
       /\ Last(1).inv["b"][i] = 0 /\ Last(1).inv["a"][i] # 0
       /\ Last(1).inv["b"][j] = 2 /\ Last(1).inv["a"][j] = -3
       /\ Last(1).outv[j] = -1

\* C3: after a completed scalarAdd (scalarMultiply) with scalar s, out[i] is
\* in[i] + s (in[i] * s) for every i < len, s being the value passed to the
\* call.
C3_ScalarResults ==
  \A s \in Streams :
    Retired(s) /\ NonAliased(Last(s).call.args) =>
      LET e == Last(s)
          x == e.call.args
      IN \A i \in Idx : i < x.len =>
           /\ e.call.api = "scalarAdd" => e.outv[i] = e.inv[x.in1][i] + x.scalar
           /\ e.call.api = "scalarMultiply" =>
                e.outv[i] = e.inv[x.in1][i] * x.scalar

C3_Witness ==
  /\ Retired(1)
  /\ Last(1).call.api = "scalarMultiply"
  /\ Last(1).call.args.len = BufLen
  /\ Last(1).call.args.in1 = "a"
  /\ Last(1).inv["a"][0] = -3
  /\ Last(1).outv[0] = -6

\* C4: eltwiseMultiply(a, a, a, len, stream) leaves a[i] = a_old[i] * a_old[i]
\* for every i < len, whatever the order in which the workers read and write.
C4_AliasedSquare ==
  \A s \in Streams :
    /\ (/\ Busy(s)
        /\ Cur(s).api = "eltwiseMultiply"
        /\ Cur(s).args.in1 = Cur(s).args.out
        /\ Cur(s).args.in2 = Cur(s).args.out) =>
         \A i \in Idx :
           wk[s][i].pc = "done" =>
             mem[Cur(s).args.out][i] =
               snap[s][Cur(s).args.out][i] * snap[s][Cur(s).args.out][i]
    /\ (/\ Retired(s)
        /\ Last(s).call.api = "eltwiseMultiply"
        /\ Last(s).call.args.in1 = Last(s).call.args.out
        /\ Last(s).call.args.in2 = Last(s).call.args.out) =>
         \A i \in Idx :
           i < Last(s).call.args.len =>
             Last(s).outv[i] = Last(s).inv[Last(s).call.args.out][i]
                                 * Last(s).inv[Last(s).call.args.out][i]

C4_Witness ==
  /\ Retired(1)
  /\ Last(1).call.api = "eltwiseMultiply"
  /\ Last(1).call.args.out = "a"
  /\ Last(1).call.args.in1 = "a"
  /\ Last(1).call.args.in2 = "a"
  /\ Last(1).call.args.len = BufLen
  /\ Last(1).inv["a"][0] = -3
  /\ Last(1).outv[0] = 9
  /\ Last(1).inv["a"][BufLen - 1] = 2

C6_StreamFifo ==
  \A s \in Streams :
    /\ \A j \in DOMAIN queue[s] :
         /\ Busy(s) => Cur(s).id < queue[s][j].id
         /\ Retired(s) => Last(s).call.id < queue[s][j].id
         /\ \A h \in DOMAIN queue[s] : h < j => queue[s][h].id < queue[s][j].id
    /\ Retired(s) /\ Busy(s) =>
         LET A == Last(s)
             B == Cur(s)
         IN /\ A.call.id < B.id
            /\ \A i \in Idx :
                 wk[s][i].pc = "loaded" =>
                   /\ B.args.in1 = A.call.args.out /\ i < A.call.args.len =>
                        wk[s][i].r1 = A.outv[i]
                   /\ B.args.in2 = A.call.args.out /\ i < A.call.args.len =>
                        wk[s][i].r2 = A.outv[i]
            /\ (/\ A.call.api = "scalarAdd"
                /\ B.api = "scalarMultiply"
                /\ B.args.in1 = A.call.args.out
                /\ NonAliased(A.call.args)
                /\ B.args.out \notin {A.call.args.in1, A.call.args.out}) =>
                 \A i \in Idx :
                   wk[s][i].pc = "done" =>
                     mem[B.args.out][i] =
                       (A.inv[A.call.args.in1][i] + A.call.args.scalar)
                         * B.args.scalar

C6_Witness ==
  /\ Retired(1) /\ Busy(1)
  /\ Last(1).call.api = "scalarAdd"
  /\ Last(1).call.args.out = "o"
  /\ Last(1).call.args.in1 = "a"
  /\ Cur(1).api = "scalarMultiply"
  /\ Cur(1).args.in1 = "o"
  /\ Cur(1).args.out = "b"
  /\ Cur(1).args.len = BufLen
  /\ \A i \in Idx : wk[1][i].pc = "done"
  /\ Last(1).inv["a"][0] = -3
  /\ mem["b"][0] = -2

\* C7: the result of eltwiseAdd (out not an input) is a function of the
\* inputs: equal operand pairs give equal results, at two indices of one run
\* and in a run and its re-run, in every order of the workers.
C7_Deterministic ==
  \A s \in Streams :
    (/\ Retired(s)
     /\ Last(s).call.api = "eltwiseAdd"
     /\ NonAliased(Last(s).call.args)) =>
      LET A == Last(s)
          x == A.call.args
      IN /\ \A i, j \in Idx :
              (/\ i < x.len /\ j < x.len
               /\ A.inv[x.in1][i] = A.inv[x.in1][j]
               /\ A.inv[x.in2][i] = A.inv[x.in2][j]) =>
                A.outv[i] = A.outv[j]
         /\ (/\ Busy(s)
             /\ Cur(s).api = "eltwiseAdd"
             /\ NonAliased(Cur(s).args)) =>
              \A i, j \in Idx :
                (/\ i < x.len
                 /\ wk[s][j].pc = "done"
                 /\ A.inv[x.in1][i] = snap[s][Cur(s).args.in1][j]
                 /\ A.inv[x.in2][i] = snap[s][Cur(s).args.in2][j]) =>
                  A.outv[i] = mem[Cur(s).args.out][j]

C7_Witness ==
  /\ Retired(1) /\ Busy(1)
  /\ Last(1).call.api = "eltwiseAdd" /\ NonAliased(Last(1).call.args)
  /\ Cur(1).api = "eltwiseAdd" /\ NonAliased(Cur(1).args)
  /\ Cur(1).args.len = BufLen
  /\ \A i \in Idx : wk[1][i].pc = "done"
  /\ Last(1).inv["a"] = snap[1]["a"]
  /\ Last(1).inv["b"] = snap[1]["b"]
  /\ snap[1]["a"][0] = -3
  /\ snap[1]["b"][0] = 2

\* C8: a call writes only out[0 .. len-1] and reads only index i < len of its
\* inputs: while it runs and when it is over, every buffer other than out
\* holds the values it had when the call started, and so does every element
\* of out from index len on.
C8_Frame ==
  \A s \in Streams :
    /\ Busy(s) =>
         LET x == Cur(s).args IN
           /\ \A b \in Buf \ {x.out} : mem[b] = snap[s][b]
           /\ \A j \in Idx : j >= x.len => mem[x.out][j] = snap[s][x.out][j]
           /\ \A i \in Idx :
                /\ wk[s][i].pc # "idle" => i < x.len
                /\ wk[s][i].pc = "loaded" =>
                     /\ wk[s][i].r1 = snap[s][x.in1][i]
                     /\ wk[s][i].r2 = snap[s][x.in2][i]
    /\ Retired(s) =>
         \A j \in Idx :
           j >= Last(s).call.args.len =>
             Last(s).outv[j] = Last(s).inv[Last(s).call.args.out][j]

C8_Witness ==
  /\ Busy(1)
  /\ Cur(1).api = "eltwiseSub"
  /\ Cur(1).args.out = "o"
  /\ Cur(1).args.len = BufLen - 1
  /\ \A i \in Idx : i < BufLen - 1 => wk[1][i].pc = "done"
  /\ mem["o"][0] # snap[1]["o"][0]
  /\ mem["a"] = snap[1]["a"]

\* C9: a call has exactly len workers, one per index below len, and each is
\* applied once; the host can make its next call whatever the stream is
\* doing; under fair scheduling every enqueued call is eventually completed
\* with its len elements written.
Enqueued(c) ==
  \E s \in Streams : \E j \in DOMAIN queue[s] : queue[s][j].id = c

Completed(c) ==
  \E s \in Streams :
    /\ Retired(s)
    /\ Last(s).call.id = c
    /\ Last(s).applied = Last(s).call.args.len

ExactlyLenWorkers ==
  \A s \in Streams :
    /\ Busy(s) =>
         {i \in Idx : wk[s][i].pc # "idle"} = {i \in Idx : i < Cur(s).args.len}
    /\ Retired(s) => Last(s).applied = Last(s).call.args.len

HostNeverWaits == ncalls < MaxCalls => ENABLED HostCall(1, Apis)

C9_RunsToCompletion ==
  /\ []ExactlyLenWorkers
  /\ []HostNeverWaits
  /\ \A c \in 1 .. MaxCalls : Enqueued(c) ~> Completed(c)

C9_Witness ==
  /\ Retired(1)
  /\ Last(1).call.id = MaxCalls
  /\ Last(1).call.api = "scalarMultiply"
  /\ Last(1).call.args.len = BufLen
  /\ Last(1).applied = BufLen

\* C10: calls on different streams are not ordered.  When one call on each
\* stream writes the same elements, each element ends as the result of one of
\* the two calls, and which one is not determined; a call that reads a buffer
\* the other stream's call is writing loads the old or the new value.
OnePerStream ==
  /\ ncalls = 2
  /\ \A s \in Streams : Len(prev[s]) + Len(running[s]) + Len(queue[s]) = 1

TheCall(s) ==
  IF Retired(s) THEN Last(s).call ELSE IF Busy(s) THEN Cur(s) ELSE queue[s][1]

IsWriterOfO(c) ==
  /\ c.api \in {"eltwiseAdd", "eltwiseSub"}
  /\ c.args.out = "o" /\ c.args.in1 = "a" /\ c.args.in2 = "b"

ResultOf(c, i) ==
  IF c.api = "eltwiseAdd" THEN mem["a"][i] + mem["b"][i]
  ELSE mem["a"][i] - mem["b"][i]

C10_CrossStreamRace ==
  OnePerStream =>
    /\ (/\ \A s \in Streams : Retired(s) /\ IsWriterOfO(Last(s).call)) =>
         \A i \in Idx :
           i < n => mem["o"][i] \in {ResultOf(Last(s).call, i) : s \in Streams}
    /\ \A s, t \in Streams :
         (/\ s # t
          /\ TheCall(s).api = "scalarAdd"
          /\ TheCall(s).args.out = "o" /\ TheCall(s).args.in1 = "a"
          /\ Busy(t)
          /\ Cur(t).api = "scalarAdd"
          /\ Cur(t).args.in1 = "o") =>
           \A i \in Idx :
             wk[t][i].pc = "loaded" =>
               wk[t][i].r1 \in {snap[t]["o"][i],
                                mem["a"][i] + TheCall(s).args.scalar}

C10_Witness ==
  /\ OnePerStream
  /\ n = BufLen
  /\ \A s \in Streams : Retired(s) /\ IsWriterOfO(Last(s).call)
  /\ Last(1).call.api = "eltwiseAdd"
  /\ Last(2).call.api = "eltwiseSub"
  /\ Last(1).call.id = 1
  /\ mem["o"][0] = ResultOf(Last(1).call, 0)
  /\ mem["o"][BufLen - 1] = ResultOf(Last(2).call, BufLen - 1)
  /\ ResultOf(Last(1).call, 0) # ResultOf(Last(2).call, 0)
  /\ ResultOf(Last(1).call, BufLen - 1) # ResultOf(Last(2).call, BufLen - 1)

====
